---- MODULE Spec2Model ----
(***************************************************************************)
(* goawsloc: one invocation of the "loc" command line client.              *)
(*                                                                         *)
(* The process runs cobra's hook sequence for the chosen subcommand:       *)
(*   RootCmd.PersistentPreRun -> <cmd>.PreRunE -> required-flag check ->   *)
(*   <cmd>.Run -> return to main.                                          *)
(* Floats are modelled by integers (only "== 0" / "!= 0" and pass-through  *)
(* are applied to them); strings that the code takes apart (tags) are      *)
(* sequences of one-character strings.  logrus writes to stderr, so only   *)
(* fmt.Print*, spew.Dump and the tabwriter reach stdout.                   *)
(***************************************************************************)
EXTENDS Integers, Sequences, FiniteSets, TLC

VARIABLES
    cmd,          \* the subcommand cobra dispatched to
    flags,        \* loc.Flags after flag parsing
    required,     \* TRUE iff every flag marked required was given
    config,       \* the yaml configuration viper reads: AwsProfile, AwsRegion
    fault,        \* which step of the environment fails (chosen at first setup)
    pc,           \* position in cobra's hook sequence
    location,     \* svc.location: the placesvc.Config, or Nil
    validated,    \* verdict of PreRunE: "none", "accepted", "rejected"
    ran,          \* TRUE once Run has executed the command's run function
    executeErr,   \* the error RootCmd.Execute returns
    runErr,       \* the error the run function returned
    backendCalls, \* requests issued to the Location Backend, in order
    backendResult,\* "none", "ok" or "err": the backend's answer
    stdout,       \* what was written to standard output, in order
    errlog,       \* messages written to stderr at Error/Fatal level, in order
    exitStatus    \* -1 while running, else the process exit status

vars == <<cmd, flags, required, config, fault, pc, location, validated, ran,
          executeErr, runErr, backendCalls, backendResult, stdout, errlog,
          exitStatus>>

----------------------------------------------------------------------------
(* Bounds and input domains *)

MaxTags == 2

\* float64 flag values; 0 is the flag default
Coord == {0, 1}

\* "k=v", "k=w", "j=v", "=", "novalue", "a=b=c", "", "k="
TagStrings ==
    { <<"k", "=", "v">>, <<"k", "=", "w">>, <<"j", "=", "v">>, <<"=">>,
      <<"n", "o">>, <<"a", "=", "b", "=", "c">>, <<>>, <<"k", "=">> }

RECURSIVE SeqsUpTo(_, _)
SeqsUpTo(S, n) ==
    IF n = 0 THEN {<<>>}
    ELSE LET shorter == SeqsUpTo(S, n - 1)
         IN  shorter \cup {Append(s, x) : s \in shorter, x \in S}

TagLists == SeqsUpTo(TagStrings, MaxTags)
IndexNames == {"", "foo"}
Texts == {"eiffel"}
CountryLists == {<<>>, <<"USA">>}
Descriptions == {"bar"}
DotenvPaths == {"", "./cfg.yaml"}
Profiles == {"", "default"}
Regions == {"", "us-east-1"}
Faults == {"none", "stat", "read", "load_panic", "load_err"}

Cmds == {"create", "delete", "describe", "list", "position", "suggestion",
         "text", "update"}

Nil == [nil |-> TRUE]
NoErr == [msg |-> "", arg |-> <<>>]
Err(m) == [msg |-> m, arg |-> <<>>]
ErrArg(m, a) == [msg |-> m, arg |-> a]

----------------------------------------------------------------------------
(* Flags: zero values, and the flags each subcommand defines *)

ZeroFlags ==
    [countries |-> <<>>, description |-> "", dotenvPath |-> "",
     indexName |-> "", json |-> FALSE, lat |-> 0, lon |-> 0, text |-> "",
     x1 |-> 0, x2 |-> 0, y1 |-> 0, y2 |-> 0, tags |-> <<>>]

\* the flag sets init() registers on each command
FlagSets(c) ==
    LET persistent == {[ZeroFlags EXCEPT !.json = j, !.dotenvPath = d] :
                          j \in BOOLEAN, d \in DotenvPaths}
        search(p) == {[p EXCEPT !.indexName = i, !.text = t, !.countries = cs,
                                !.lat = la, !.lon = lo, !.x1 = a, !.x2 = b,
                                !.y1 = cc, !.y2 = dd] :
                         i \in IndexNames, t \in Texts, cs \in CountryLists,
                         la \in Coord, lo \in Coord, a \in Coord, b \in Coord,
                         cc \in Coord, dd \in Coord}
    IN  CASE c = "create" ->
               UNION {{[p EXCEPT !.indexName = i, !.description = d, !.tags = t] :
                          i \in IndexNames, d \in Descriptions, t \in TagLists} :
                      p \in persistent}
          [] c \in {"delete", "describe"} ->
               UNION {{[p EXCEPT !.indexName = i] : i \in IndexNames} :
                      p \in persistent}
          [] c = "list" -> persistent
          [] c = "position" ->
               UNION {{[p EXCEPT !.indexName = i, !.lat = la, !.lon = lo] :
                          i \in IndexNames, la \in Coord, lo \in Coord} :
                      p \in persistent}
          [] c \in {"suggestion", "text"} -> UNION {search(p) : p \in persistent}
          [] c = "update" ->
               UNION {{[p EXCEPT !.indexName = i, !.description = d] :
                          i \in IndexNames, d \in Descriptions} :
                      p \in persistent}

\* MarkFlagRequired: the flags each command requires (describe and list: none)
RequiredFlags(c) ==
    CASE c = "create" -> {"indexName"}
      [] c = "delete" -> {"indexName"}
      [] c = "describe" -> {}
      [] c = "list" -> {}
      [] c = "position" -> {"indexName", "lat", "lon"}
      [] c = "suggestion" -> {"indexName", "text", "countries"}
      [] c = "text" -> {"indexName", "text"}
      [] c = "update" -> {"indexName"}

----------------------------------------------------------------------------
(* placesvc: the service configuration and its operations *)

\* os.Getenv("AWS_REGION"), used only when no region option is given
EnvRegion == ""

\* placesvc.New after the Set* options of setup() were applied
New(profile, region, indexName) ==
    [region       |-> IF region = "" THEN EnvRegion ELSE region,
     profile      |-> profile,
     indexService |-> "Here",
     indexName    |-> indexName,
     intendedUse  |-> "SingleUse",
     language     |-> "en",
     pricingPlan  |-> "RequestBasedUsage"]

\* sanity without its check
sanity_NoCheck(c) == NoErr

\* Config.sanity
sanity(c) == IF c.indexName = "" THEN Err("indexName not set") ELSE NoErr

\* A service call's outcome: the error returned before any request (or NoErr)
\* and the requests handed to the AWS client.
Issue(op, input) == [err |-> NoErr, calls |-> <<[op |-> op, input |-> input]>>]
Refuse(e) == [err |-> e, calls |-> <<>>]

CreatePlaceIndex(c, description, tags) ==
    IF sanity(c) # NoErr THEN Refuse(sanity(c))
    ELSE Issue("CreatePlaceIndex",
               [DataSource |-> c.indexService, IntendedUse |-> c.intendedUse,
                Description |-> description, IndexName |-> c.indexName,
                PricingPlan |-> c.pricingPlan, Tags |-> tags])

DeletePlaceIndex(c) ==
    IF sanity(c) # NoErr THEN Refuse(sanity(c))
    ELSE Issue("DeletePlaceIndex", [IndexName |-> c.indexName])

\* DescribePlaceIndex without the fall-back to the configured index name
DescribePlaceIndex_NoFallback(c, indexName) ==
    Issue("DescribePlaceIndex", [IndexName |-> indexName])

DescribePlaceIndex(c, indexName) ==
    IF indexName = ""
    THEN IF sanity(c) # NoErr THEN Refuse(sanity(c))
         ELSE Issue("DescribePlaceIndex", [IndexName |-> c.indexName])
    ELSE Issue("DescribePlaceIndex", [IndexName |-> indexName])

ListPlaceIndexes(c) == Issue("ListPlaceIndexes", [empty |-> TRUE])

\* the position built in flag order (latitude first)
SearchPlaceIndexForPosition_LatFirst(c, latLon) ==
    Issue("SearchPlaceIndexForPosition",
          [IndexName |-> c.indexName, Language |-> c.language,
           Position |-> <<latLon.Latitude, latLon.Longitude>>])

SearchPlaceIndexForPosition(c, latLon) ==
    Issue("SearchPlaceIndexForPosition",
          [IndexName |-> c.indexName, Language |-> c.language,
           Position |-> <<latLon.Longitude, latLon.Latitude>>])

SearchPlaceIndexForSuggestions(c, search) ==
    Issue("SearchPlaceIndexForSuggestions",
          [IndexName |-> c.indexName, Text |-> search.Text,
           FilterCountries |-> search.FilterCountries,
           Language |-> c.language])

\* SearchPlaceIndexForText with the two commented-out fields in the request
SearchPlaceIndexForText_WithFilters(c, search) ==
    Issue("SearchPlaceIndexForText",
          [IndexName |-> c.indexName, Text |-> search.Text,
           BiasPosition |-> <<search.BiasPosition.Longitude,
                              search.BiasPosition.Latitude>>,
           FilterBBox |-> <<search.FilterBBox.X1, search.FilterBBox.Y1,
                            search.FilterBBox.X2, search.FilterBBox.Y2>>,
           FilterCountries |-> search.FilterCountries,
           Language |-> c.language])

SearchPlaceIndexForText(c, search) ==
    Issue("SearchPlaceIndexForText",
          [IndexName |-> c.indexName, Text |-> search.Text,
           FilterCountries |-> search.FilterCountries,
           Language |-> c.language])

UpdatePlaceIndex(c, description) ==
    IF sanity(c) # NoErr THEN Refuse(sanity(c))
    ELSE Issue("UpdatePlaceIndex",
               [IndexName |-> c.indexName, IntendedUse |-> c.intendedUse,
                Description |-> description, PricingPlan |-> c.pricingPlan])

----------------------------------------------------------------------------
(* subcmds/loc: validators, run functions, setup *)

\* strings.Split(s, sep) for a one-character separator
RECURSIVE Split(_, _)
Split(s, sep) ==
    IF \E i \in 1..Len(s) : s[i] = sep
    THEN LET i == CHOOSE j \in 1..Len(s) :
                      s[j] = sep /\ \A k \in 1..(j - 1) : s[k] # sep
         IN  <<SubSeq(s, 1, i - 1)>> \o Split(SubSeq(s, i + 1, Len(s)), sep)
    ELSE <<s>>

\* Go map assignment m[k] = v
MapSet(m, k, v) == [x \in (DOMAIN m) \cup {k} |-> IF x = k THEN v ELSE m[x]]
EmptyMap == [x \in {} |-> <<>>]

\* the tag loop rejecting only strings with fewer than two parts
RECURSIVE ParseTags_AtLeastTwo(_, _, _)
ParseTags_AtLeastTwo(tags, i, m) ==
    IF i > Len(tags) THEN [err |-> NoErr, tags |-> m]
    ELSE LET parts == Split(tags[i], "=")
         IN  IF Len(parts) < 2
             THEN [err |-> ErrArg("invalid tag", tags[i]), tags |-> m]
             ELSE ParseTags_AtLeastTwo(tags, i + 1, MapSet(m, parts[1], parts[2]))

\* the tag loop of runCreatePlaceIndex, from index i on with map m so far
RECURSIVE ParseTags(_, _, _)
ParseTags(tags, i, m) ==
    IF i > Len(tags) THEN [err |-> NoErr, tags |-> m]
    ELSE LET parts == Split(tags[i], "=")
         IN  IF Len(parts) # 2
             THEN [err |-> ErrArg("invalid tag", tags[i]), tags |-> m]
             ELSE ParseTags(tags, i + 1, MapSet(m, parts[1], parts[2]))

\* cmdSuggestion.PreRunE without its last check (y2)
cmdSuggestionPreRunE_NoY2(f) ==
    IF f.lat # 0 /\ f.lon = 0 THEN Err("latitude is set but longitude is not")
    ELSE IF f.lat = 0 /\ f.lon # 0 THEN Err("longitude is set but latitude is not")
    ELSE IF f.x1 # 0 /\ (f.x2 = 0 \/ f.y1 = 0 \/ f.y2 = 0)
         THEN Err("x1 is set but x2 or y1 or y2 is not")
    ELSE IF f.x2 # 0 /\ (f.x1 = 0 \/ f.y1 = 0 \/ f.y2 = 0)
         THEN Err("x2 is set but x1 or y1 or y2 is not")
    ELSE IF f.y1 # 0 /\ (f.x1 = 0 \/ f.x2 = 0 \/ f.y2 = 0)
         THEN Err("y1 is set but x1 or x2 or y2 is not")
    ELSE NoErr

\* cmdSuggestion.PreRunE rejecting a bias position given with a bounding box
cmdSuggestionPreRunE_Exclusive(f) ==
    IF f.lat # 0 /\ f.lon = 0 THEN Err("latitude is set but longitude is not")
    ELSE IF f.lat = 0 /\ f.lon # 0 THEN Err("longitude is set but latitude is not")
    ELSE IF f.x1 # 0 /\ (f.x2 = 0 \/ f.y1 = 0 \/ f.y2 = 0)
         THEN Err("x1 is set but x2 or y1 or y2 is not")
    ELSE IF f.x2 # 0 /\ (f.x1 = 0 \/ f.y1 = 0 \/ f.y2 = 0)
         THEN Err("x2 is set but x1 or y1 or y2 is not")
    ELSE IF f.y1 # 0 /\ (f.x1 = 0 \/ f.x2 = 0 \/ f.y2 = 0)
         THEN Err("y1 is set but x1 or x2 or y2 is not")
    ELSE IF f.y2 # 0 /\ (f.x1 = 0 \/ f.x2 = 0 \/ f.y1 = 0)
         THEN Err("y2 is set but x1 or x2 or y1 is not")
    ELSE IF f.lat # 0 /\ f.x1 # 0
         THEN Err("bias position and bounding box are mutually exclusive")
    ELSE NoErr

\* cmdSuggestion.PreRunE
cmdSuggestionPreRunE(f) ==
    IF f.lat # 0 /\ f.lon = 0 THEN Err("latitude is set but longitude is not")
    ELSE IF f.lat = 0 /\ f.lon # 0 THEN Err("longitude is set but latitude is not")
    ELSE IF f.x1 # 0 /\ (f.x2 = 0 \/ f.y1 = 0 \/ f.y2 = 0)
         THEN Err("x1 is set but x2 or y1 or y2 is not")
    ELSE IF f.x2 # 0 /\ (f.x1 = 0 \/ f.y1 = 0 \/ f.y2 = 0)
         THEN Err("x2 is set but x1 or y1 or y2 is not")
    ELSE IF f.y1 # 0 /\ (f.x1 = 0 \/ f.x2 = 0 \/ f.y2 = 0)
         THEN Err("y1 is set but x1 or x2 or y2 is not")
    ELSE IF f.y2 # 0 /\ (f.x1 = 0 \/ f.x2 = 0 \/ f.y1 = 0)
         THEN Err("y2 is set but x1 or x2 or y1 is not")
    ELSE NoErr

\* cmdText.PreRunE without its second check (longitude without latitude)
cmdTextPreRunE_NoLonCheck(f) ==
    IF f.lat # 0 /\ f.lon = 0 THEN Err("latitude is set but longitude is not")
    ELSE IF f.x1 # 0 /\ (f.x2 = 0 \/ f.y1 = 0 \/ f.y2 = 0)
         THEN Err("x1 is set but x2 or y1 or y2 is not")
    ELSE IF f.x2 # 0 /\ (f.x1 = 0 \/ f.y1 = 0 \/ f.y2 = 0)
         THEN Err("x2 is set but x1 or y1 or y2 is not")
    ELSE IF f.y1 # 0 /\ (f.x1 = 0 \/ f.x2 = 0 \/ f.y2 = 0)
         THEN Err("y1 is set but x1 or x2 or y2 is not")
    ELSE IF f.y2 # 0 /\ (f.x1 = 0 \/ f.x2 = 0 \/ f.y1 = 0)
         THEN Err("y2 is set but x1 or x2 or y1 is not")
    ELSE NoErr

\* cmdText.PreRunE with the x2 check ahead of the x1 check
cmdTextPreRunE_X2First(f) ==
    IF f.lat # 0 /\ f.lon = 0 THEN Err("latitude is set but longitude is not")
    ELSE IF f.lat = 0 /\ f.lon # 0 THEN Err("longitude is set but latitude is not")
    ELSE IF f.x2 # 0 /\ (f.x1 = 0 \/ f.y1 = 0 \/ f.y2 = 0)
         THEN Err("x2 is set but x1 or y1 or y2 is not")
    ELSE IF f.x1 # 0 /\ (f.x2 = 0 \/ f.y1 = 0 \/ f.y2 = 0)
         THEN Err("x1 is set but x2 or y1 or y2 is not")
    ELSE IF f.y1 # 0 /\ (f.x1 = 0 \/ f.x2 = 0 \/ f.y2 = 0)
         THEN Err("y1 is set but x1 or x2 or y2 is not")
    ELSE IF f.y2 # 0 /\ (f.x1 = 0 \/ f.x2 = 0 \/ f.y1 = 0)
         THEN Err("y2 is set but x1 or x2 or y1 is not")
    ELSE NoErr

\* cmdText.PreRunE
cmdTextPreRunE(f) ==
    IF f.lat # 0 /\ f.lon = 0 THEN Err("latitude is set but longitude is not")
    ELSE IF f.lat = 0 /\ f.lon # 0 THEN Err("longitude is set but latitude is not")
    ELSE IF f.x1 # 0 /\ (f.x2 = 0 \/ f.y1 = 0 \/ f.y2 = 0)
         THEN Err("x1 is set but x2 or y1 or y2 is not")
    ELSE IF f.x2 # 0 /\ (f.x1 = 0 \/ f.y1 = 0 \/ f.y2 = 0)
         THEN Err("x2 is set but x1 or y1 or y2 is not")
    ELSE IF f.y1 # 0 /\ (f.x1 = 0 \/ f.x2 = 0 \/ f.y2 = 0)
         THEN Err("y1 is set but x1 or x2 or y2 is not")
    ELSE IF f.y2 # 0 /\ (f.x1 = 0 \/ f.x2 = 0 \/ f.y1 = 0)
         THEN Err("y2 is set but x1 or x2 or y1 is not")
    ELSE NoErr

\* The (ret, err) of a service call: the error placesvc returned before any
\* request, else the backend's answer to the request.
BackendErr == Err("backend error")
CallErr(r, resp) ==
    IF r.err # NoErr THEN r.err
    ELSE IF resp = "err" THEN BackendErr ELSE NoErr

\* What a run function did: the error it returns, the requests it issued,
\* what it wrote to stdout and what it logged at Error level.
Ran(e, calls, out, log) == [err |-> e, calls |-> calls, out |-> out, log |-> log]
MarshalErr == Err("json: unsupported value")

\* the json / human-readable branch shared by the presenting run functions
Present(f, r, marshal, before, human) ==
    IF f.json
    THEN IF marshal = "err"
         THEN Ran(MarshalErr, r.calls, before, <<"error marshalling json">>)
         ELSE Ran(NoErr, r.calls, before \o <<"json">>, <<>>)
    ELSE Ran(NoErr, r.calls, before \o human, <<>>)

runCreatePlaceIndex(f, c, resp, marshal) ==
    LET p == ParseTags(f.tags, 1, EmptyMap)
    IN  IF p.err # NoErr THEN Ran(p.err, <<>>, <<>>, <<"invalid tag">>)
        ELSE LET r == CreatePlaceIndex(c, f.description, p.tags)
             IN  IF CallErr(r, resp) # NoErr
                 THEN Ran(CallErr(r, resp), r.calls, <<>>, <<"error creating index">>)
                 ELSE Ran(NoErr, r.calls, <<>>, <<>>)

\* runDeletePlaceIndex repeating the request after a backend failure
runDeletePlaceIndex_Retry(f, c, resp, marshal) ==
    LET r == DeletePlaceIndex(c)
    IN  IF CallErr(r, resp) # NoErr
        THEN Ran(CallErr(r, resp), r.calls \o r.calls, <<>>,
                 <<"error deleting index">>)
        ELSE Ran(NoErr, r.calls, <<>>, <<>>)

runDeletePlaceIndex(f, c, resp, marshal) ==
    LET r == DeletePlaceIndex(c)
    IN  IF CallErr(r, resp) # NoErr
        THEN Ran(CallErr(r, resp), r.calls, <<>>, <<"error deleting index">>)
        ELSE Ran(NoErr, r.calls, <<>>, <<>>)

runDescribeIndex(f, c, resp, marshal) ==
    LET r == DescribePlaceIndex(c, f.indexName)
    IN  IF CallErr(r, resp) # NoErr
        THEN Ran(CallErr(r, resp), r.calls, <<>>, <<"error describing index">>)
        ELSE Present(f, r, marshal, <<>>, <<"report">>)

runListIndexes(f, c, resp, marshal) ==
    LET r == ListPlaceIndexes(c)
    IN  IF CallErr(r, resp) # NoErr
        THEN Ran(CallErr(r, resp), r.calls, <<>>, <<"error listing indexes">>)
        ELSE Present(f, r, marshal, <<>>, <<"table", "newline">>)

runSearchPosition(f, c, resp, marshal) ==
    LET r == SearchPlaceIndexForPosition(
                 c, [Latitude |-> f.lat, Longitude |-> f.lon])
    IN  IF CallErr(r, resp) # NoErr
        THEN Ran(CallErr(r, resp), r.calls, <<>>, <<"error searching position">>)
        ELSE Present(f, r, marshal, <<>>, <<"summary", "results">>)

\* the SuggestionSearch both text searches build from the flags
SearchOf(f) ==
    [Text            |-> f.text,
     BiasPosition    |-> [Latitude |-> f.lat, Longitude |-> f.lon],
     FilterBBox      |-> [X1 |-> f.x1, Y1 |-> f.y1, X2 |-> f.x2, Y2 |-> f.y2],
     FilterCountries |-> f.countries]

runSearchSuggestion(f, c, resp, marshal) ==
    LET r == SearchPlaceIndexForSuggestions(c, SearchOf(f))
    IN  IF CallErr(r, resp) # NoErr
        THEN Ran(CallErr(r, resp), r.calls, <<"countries">>,
                 <<"error searching suggestion">>)
        ELSE Present(f, r, marshal, <<"countries">>, <<"summary", "results">>)

runSearchText(f, c, resp, marshal) ==
    LET r == SearchPlaceIndexForText(c, SearchOf(f))
    IN  IF CallErr(r, resp) # NoErr
        THEN Ran(CallErr(r, resp), r.calls, <<>>, <<"error searching text">>)
        ELSE Present(f, r, marshal, <<>>, <<"summary", "results">>)

runUpdatePlaceIndex(f, c, resp, marshal) ==
    LET r == UpdatePlaceIndex(c, f.description)
    IN  IF CallErr(r, resp) # NoErr
        THEN Ran(CallErr(r, resp), r.calls, <<>>, <<"error updating index">>)
        ELSE Ran(NoErr, r.calls, <<>>, <<>>)

\* path.Clean on the dotenv paths of the model
Clean(p) == IF p = "./cfg.yaml" THEN "cfg.yaml" ELSE IF p = "" THEN "." ELSE p

\* setup(): how it ends ("ok", "fatal" with the message, or "panic"), the
\* flags it leaves and the service it builds.  flt is the step of the
\* environment that fails: os.Stat, viper.ReadInConfig, or the AWS
\* configuration load inside placesvc.New (which panics in service.go and is
\* handled as a returned error in root.go).
Setup(end, msg, f, loc) == [end |-> end, msg |-> msg, flags |-> f, location |-> loc]
\* setup() without the AwsRegion check
setup_NoRegionCheck(f, conf, flt, loc) ==
    LET g == IF f.dotenvPath = "" THEN f
             ELSE [f EXCEPT !.dotenvPath = Clean(f.dotenvPath)]
    IN  IF f.dotenvPath # "" /\ flt = "stat"
        THEN Setup("fatal", "unable to load dotenv", g, loc)
        ELSE IF flt = "read"
        THEN Setup("fatal", "failed to read dotenv file", g, loc)
        ELSE IF conf.AwsProfile = ""
        THEN Setup("fatal", "AwsProfile not set", g, loc)
        ELSE IF flt = "load_panic"
        THEN Setup("panic", "panic", g, loc)
        ELSE IF flt = "load_err"
        THEN Setup("fatal", "failed to create location service", g, loc)
        ELSE Setup("ok", "", g, New(conf.AwsProfile, conf.AwsRegion, g.indexName))

setup(f, conf, flt, loc) ==
    LET g == IF f.dotenvPath = "" THEN f
             ELSE [f EXCEPT !.dotenvPath = Clean(f.dotenvPath)]
    IN  IF f.dotenvPath # "" /\ flt = "stat"
        THEN Setup("fatal", "unable to load dotenv", g, loc)
        ELSE IF flt = "read"
        THEN Setup("fatal", "failed to read dotenv file", g, loc)
        ELSE IF conf.AwsProfile = ""
        THEN Setup("fatal", "AwsProfile not set", g, loc)
        ELSE IF conf.AwsRegion = ""
        THEN Setup("fatal", "AwsRegion not set in yaml config file", g, loc)
        ELSE IF flt = "load_panic"
        THEN Setup("panic", "panic", g, loc)
        ELSE IF flt = "load_err"
        THEN Setup("fatal", "failed to create location service", g, loc)
        ELSE Setup("ok", "", g, New(conf.AwsProfile, conf.AwsRegion, g.indexName))

----------------------------------------------------------------------------
(* The process *)

Init ==
    /\ cmd \in Cmds
    /\ flags \in FlagSets(cmd)
    /\ required \in BOOLEAN
    /\ required = FALSE => \E n \in RequiredFlags(cmd) : flags[n] = ZeroFlags[n]
    /\ config \in [AwsProfile : Profiles, AwsRegion : Regions]
    /\ fault = "unknown"
    /\ pc = "PersistentPreRun"
    /\ location = Nil
    /\ validated = "none"
    /\ ran = FALSE
    /\ executeErr = NoErr
    /\ runErr = NoErr
    /\ backendCalls = <<>>
    /\ backendResult = "none"
    /\ stdout = <<>>
    /\ errlog = <<>>
    /\ exitStatus = -1

\* log.Fatal / a panic inside setup(): the process ends there
Die(s) ==
    /\ flags' = s.flags
    /\ errlog' = Append(errlog, s.msg)
    /\ exitStatus' = IF s.end = "panic" THEN 2 ELSE 1
    /\ pc' = "exited"

\* RootCmd.PersistentPreRun: set the log level, then setup()
PersistentPreRun ==
    /\ pc = "PersistentPreRun"
    /\ \E flt \in Faults :
          /\ fault' = flt
          /\ LET s == setup(flags, config, flt, location)
             IN  IF s.end # "ok"
                 THEN Die(s) /\ UNCHANGED location
                 ELSE /\ flags' = s.flags
                      /\ location' = s.location
                      /\ pc' = "PreRunE"
                      /\ UNCHANGED <<errlog, exitStatus>>
    /\ UNCHANGED <<cmd, required, config, validated, ran, executeErr, runErr,
                   backendCalls, backendResult, stdout>>

\* cobra runs <cmd>.PreRunE, whose result is e; an error ends Execute, which
\* prints and returns it
PreRunE(c, e) ==
    /\ pc = "PreRunE"
    /\ cmd = c
    /\ IF e # NoErr
       THEN /\ validated' = "rejected"
            /\ executeErr' = e
            /\ errlog' = Append(errlog, e.msg)
            /\ pc' = "main"
       ELSE /\ validated' = "accepted"
            /\ pc' = "ValidateRequiredFlags"
            /\ UNCHANGED <<executeErr, errlog>>
    /\ UNCHANGED <<cmd, flags, required, config, fault, location, ran, runErr,
                   backendCalls, backendResult, stdout, exitStatus>>

cmdSuggestionPreRun == PreRunE("suggestion", cmdSuggestionPreRunE(flags))
\* cmdText.PreRunE with its error dropped: Run follows a rejection
cmdTextPreRun_ErrorDropped ==
    /\ pc = "PreRunE"
    /\ cmd = "text"
    /\ validated' = IF cmdTextPreRunE(flags) # NoErr THEN "rejected" ELSE "accepted"
    /\ pc' = "ValidateRequiredFlags"
    /\ UNCHANGED <<cmd, flags, required, config, fault, location, ran,
                   executeErr, runErr, backendCalls, backendResult, stdout,
                   errlog, exitStatus>>

cmdTextPreRun == PreRunE("text", cmdTextPreRunE(flags))

\* the six commands that define no PreRunE
NoPreRun ==
    /\ pc = "PreRunE"
    /\ cmd \notin {"suggestion", "text"}
    /\ pc' = "ValidateRequiredFlags"
    /\ UNCHANGED <<cmd, flags, required, config, fault, location, validated,
                   ran, executeErr, runErr, backendCalls, backendResult, stdout,
                   errlog, exitStatus>>

\* cobra's check of the flags marked required, between PreRunE and Run
ValidateRequiredFlags ==
    /\ pc = "ValidateRequiredFlags"
    /\ IF RequiredFlags(cmd) # {} /\ ~required
       THEN /\ executeErr' = Err("required flag(s) not set")
            /\ errlog' = Append(errlog, "required flag(s) not set")
            /\ pc' = "main"
       ELSE /\ pc' = "Run"
            /\ UNCHANGED <<executeErr, errlog>>
    /\ UNCHANGED <<cmd, flags, required, config, fault, location, validated,
                   ran, runErr, backendCalls, backendResult, stdout, exitStatus>>

\* the backend's answer to a request, and json.Marshal's result
Answers == {"ok", "err"}

\* the setup() call that opens every Run
SetupInRun == setup(flags, config, fault, location)

\* <cmd>.Run: setup() ended as s; then the run function, which did r with the
\* backend answering resp; log.Fatal on its error
Run(c, s, r, resp) ==
    /\ pc = "Run"
    /\ cmd = c
    /\ IF s.end # "ok"
       THEN /\ Die(s)
            /\ UNCHANGED <<location, ran, runErr, backendCalls, backendResult,
                           stdout>>
       ELSE /\ flags' = s.flags
            /\ location' = s.location
            /\ ran' = TRUE
            /\ runErr' = r.err
            /\ backendCalls' = backendCalls \o r.calls
            /\ backendResult' = IF r.calls = <<>> THEN "none" ELSE resp
            /\ stdout' = stdout \o r.out
            /\ IF r.err # NoErr
               THEN /\ errlog' = errlog \o r.log \o <<r.err.msg>>
                    /\ exitStatus' = 1
                    /\ pc' = "exited"
               ELSE /\ errlog' = errlog \o r.log
                    /\ pc' = "main"
                    /\ UNCHANGED exitStatus
    /\ UNCHANGED <<cmd, required, config, fault, validated, executeErr>>

cmdCreateRun ==
    \E resp \in Answers, marshal \in Answers :
        Run("create", SetupInRun,
            runCreatePlaceIndex(SetupInRun.flags, SetupInRun.location, resp, marshal), resp)

cmdDeleteRun ==
    \E resp \in Answers, marshal \in Answers :
        Run("delete", SetupInRun,
            runDeletePlaceIndex(SetupInRun.flags, SetupInRun.location, resp, marshal), resp)

cmdDescribeRun ==
    \E resp \in Answers, marshal \in Answers :
        Run("describe", SetupInRun,
            runDescribeIndex(SetupInRun.flags, SetupInRun.location, resp, marshal), resp)

cmdListRun ==
    \E resp \in Answers, marshal \in Answers :
        Run("list", SetupInRun,
            runListIndexes(SetupInRun.flags, SetupInRun.location, resp, marshal), resp)

cmdPositionRun ==
    \E resp \in Answers, marshal \in Answers :
        Run("position", SetupInRun,
            runSearchPosition(SetupInRun.flags, SetupInRun.location, resp, marshal), resp)

cmdSuggestionRun ==
    \E resp \in Answers, marshal \in Answers :
        Run("suggestion", SetupInRun,
            runSearchSuggestion(SetupInRun.flags, SetupInRun.location, resp, marshal), resp)

cmdTextRun ==
    \E resp \in Answers, marshal \in Answers :
        Run("text", SetupInRun,
            runSearchText(SetupInRun.flags, SetupInRun.location, resp, marshal), resp)

cmdUpdateRun ==
    \E resp \in Answers, marshal \in Answers :
        Run("update", SetupInRun,
            runUpdatePlaceIndex(SetupInRun.flags, SetupInRun.location, resp, marshal), resp)

\* main: Execute() has returned; its result is discarded, so the local err the
\* deferred function tests is still nil
main ==
    /\ pc = "main"
    /\ LET err == NoErr
       IN  exitStatus' = IF err # NoErr THEN 1 ELSE 0
    /\ pc' = "exited"
    /\ UNCHANGED <<cmd, flags, required, config, fault, location, validated,
                   ran, executeErr, runErr, backendCalls, backendResult, stdout,
                   errlog>>

Next ==
    \/ PersistentPreRun
    \/ cmdSuggestionPreRun
    \/ cmdTextPreRun
    \/ NoPreRun
    \/ ValidateRequiredFlags
    \/ cmdCreateRun
    \/ cmdDeleteRun
    \/ cmdDescribeRun
    \/ cmdListRun
    \/ cmdPositionRun
    \/ cmdSuggestionRun
    \/ cmdTextRun
    \/ cmdUpdateRun
    \/ main

Spec == Init /\ [][Next]_vars

----------------------------------------------------------------------------
(* placesvc.DescribePlaceIndex under any service configuration *)

\* index names for the describe argument and for SetIndexName
DescribeNames == {"", "foo", "bar"}

\* The describe command at the entry of its run function, with a service whose
\* configured index name is drawn independently of the --index argument (the
\* package lets a caller build any such Config with SetIndexName).
InitDescribe ==
    /\ cmd = "describe"
    /\ \E j \in BOOLEAN, n \in DescribeNames, d \in DotenvPaths :
          flags = [ZeroFlags EXCEPT !.json = j, !.indexName = n,
                                    !.dotenvPath = IF d = "" THEN d ELSE Clean(d)]
    /\ required = TRUE
    /\ config = [AwsProfile |-> "default", AwsRegion |-> "us-east-1"]
    /\ fault = "none"
    /\ pc = "Run"
    /\ \E i \in DescribeNames :
          location = New(config.AwsProfile, config.AwsRegion, i)
    /\ validated = "none"
    /\ ran = FALSE
    /\ executeErr = NoErr
    /\ runErr = NoErr
    /\ backendCalls = <<>>
    /\ backendResult = "none"
    /\ stdout = <<>>
    /\ errlog = <<>>
    /\ exitStatus = -1

\* runDescribeIndex on the service as configured, and log.Fatal on its error
DescribeWithService ==
    \E resp \in Answers, marshal \in Answers :
        Run("describe", Setup("ok", "", flags, location),
            runDescribeIndex(flags, location, resp, marshal), resp)

NextDescribe ==
    \/ DescribeWithService
    \/ main

SpecDescribe == InitDescribe /\ [][NextDescribe]_vars

----------------------------------------------------------------------------
(* Properties *)

SearchCmds == {"suggestion", "text"}
BBoxZero(f) == f.x1 = 0 /\ f.x2 = 0 /\ f.y1 = 0 /\ f.y2 = 0
BBoxFull(f) == f.x1 # 0 /\ f.x2 # 0 /\ f.y1 # 0 /\ f.y2 # 0

\* C1: for suggestion and text, with the bounding box all zero, PreRunE
\* accepts iff lat and lon are both nonzero or both zero; lat without lon is
\* rejected with "latitude is set but longitude is not", lon without lat with
\* "longitude is set but latitude is not".
C1_LatLonPair ==
    (cmd \in SearchCmds /\ validated # "none" /\ BBoxZero(flags)) =>
        /\ validated = "accepted" <=>
              ((flags.lat # 0 /\ flags.lon # 0) \/ (flags.lat = 0 /\ flags.lon = 0))
        /\ (flags.lat # 0 /\ flags.lon = 0) =>
              executeErr = Err("latitude is set but longitude is not")
        /\ (flags.lat = 0 /\ flags.lon # 0) =>
              executeErr = Err("longitude is set but latitude is not")

C1_Witness ==
    /\ cmd = "text"
    /\ validated = "rejected"
    /\ BBoxZero(flags)
    /\ flags.lat = 0 /\ flags.lon # 0
    /\ executeErr = Err("longitude is set but latitude is not")

\* C2: for suggestion and text, with lat and lon both zero, PreRunE accepts
\* iff the four bounding-box components are all zero or all nonzero.
C2_BBoxAllOrNothing ==
    (cmd \in SearchCmds /\ validated # "none" /\ flags.lat = 0 /\ flags.lon = 0) =>
        /\ validated = "accepted" <=> (BBoxZero(flags) \/ BBoxFull(flags))
        /\ validated = "rejected" => executeErr # NoErr

C2_Witness ==
    /\ cmd = "suggestion"
    /\ validated = "rejected"
    /\ flags.lat = 0 /\ flags.lon = 0
    /\ flags.x1 = 0 /\ flags.x2 = 0 /\ flags.y1 = 0 /\ flags.y2 # 0

\* an invocation has failed: setup ended fatally, Execute returned an error
\* (validation, required flags), or the run function returned one (request
\* building, backend, encoding)
Failed ==
    \/ executeErr # NoErr
    \/ runErr # NoErr
    \/ (pc = "exited" /\ ~ran /\ validated = "none" /\ exitStatus # 0)

\* C3: every invocation that fails (in validation, in request building or in
\* the backend call) ends with a non-zero exit status.
C3_FailureExitsNonZero ==
    (pc = "exited" /\ Failed) => exitStatus # 0

\* the number of "=" in a tag string, and the parts around a single "="
CountEq(s) == Cardinality({i \in 1..Len(s) : s[i] = "="})
WellFormed(s) == CountEq(s) = 1
EqAt(s) == CHOOSE i \in 1..Len(s) : s[i] = "="
KeyOf(s) == SubSeq(s, 1, EqAt(s) - 1)
ValOf(s) == SubSeq(s, EqAt(s) + 1, Len(s))
AllWellFormed(tags) == \A i \in 1..Len(tags) : WellFormed(tags[i])

\* C4 as stated: each of the eight operations, run with an empty index name,
\* fails with "indexName not set" and issues no backend call.
C4_EveryOperationChecksIndexName ==
    (ran /\ location.indexName = "" /\ (cmd = "create" => AllWellFormed(flags.tags))) =>
        /\ runErr = Err("indexName not set")
        /\ backendCalls = <<>>

\* C4 amended: create, delete, describe and update, run with an empty index
\* name, fail with "indexName not set" and issue no backend call (create once
\* its tags have parsed); list, position, suggestion and text make no such
\* check and issue their backend call.
C4_SanityCheckedOperations ==
    (ran /\ location.indexName = "") =>
        /\ (cmd \in {"delete", "describe", "update"}
              \/ (cmd = "create" /\ AllWellFormed(flags.tags))) =>
              (runErr = Err("indexName not set") /\ backendCalls = <<>>)
        /\ cmd \in {"list", "position", "suggestion", "text"} =>
              (Len(backendCalls) = 1 /\ runErr # Err("indexName not set"))

C4_Witness ==
    /\ cmd = "update"
    /\ ran
    /\ location.indexName = ""
    /\ runErr = Err("indexName not set")
    /\ backendCalls = <<>>
    /\ exitStatus = 1

\* the first malformed tag of a list that has one
FirstMalformed(tags) ==
    tags[CHOOSE i \in 1..Len(tags) :
             ~WellFormed(tags[i]) /\ \A j \in 1..(i - 1) : WellFormed(tags[j])]

\* the second half of C5: a malformed tag fails create, naming the first one,
\* with no backend call
RejectsMalformed ==
    (cmd = "create" /\ ran /\ ~AllWellFormed(flags.tags)) =>
        /\ runErr = ErrArg("invalid tag", FirstMalformed(flags.tags))
        /\ backendCalls = <<>>

\* C5 as stated: when every tag has exactly one "=", the mapping sent maps,
\* for each string, the part before "=" to the part after it; a malformed tag
\* fails create, naming the first one, with no backend call.
C5_TagsMapEachString ==
    /\ (cmd = "create" /\ backendCalls # <<>>) =>
          \A i \in 1..Len(flags.tags) :
              /\ KeyOf(flags.tags[i]) \in DOMAIN backendCalls[1].input.Tags
              /\ backendCalls[1].input.Tags[KeyOf(flags.tags[i])] = ValOf(flags.tags[i])
    /\ RejectsMalformed

\* C5 amended: when every tag has exactly one "=", the mapping sent has as
\* keys the parts before "=", and maps each key to the part after "=" of the
\* last string in the list with that key; a malformed tag fails create,
\* naming the first one, with no backend call.
C5_TagsLastWins ==
    /\ (cmd = "create" /\ backendCalls # <<>>) =>
          LET sent == backendCalls[1].input.Tags
              idx == 1..Len(flags.tags)
          IN  /\ AllWellFormed(flags.tags)
              /\ DOMAIN sent = {KeyOf(flags.tags[i]) : i \in idx}
              /\ \A i \in idx :
                    (\A j \in idx : j > i => KeyOf(flags.tags[j]) # KeyOf(flags.tags[i]))
                       => sent[KeyOf(flags.tags[i])] = ValOf(flags.tags[i])
    /\ RejectsMalformed

C5_Witness ==
    /\ cmd = "create"
    /\ backendCalls # <<>>
    /\ Len(flags.tags) = 2
    /\ KeyOf(flags.tags[1]) = KeyOf(flags.tags[2])
    /\ ValOf(flags.tags[1]) # ValOf(flags.tags[2])
    /\ backendCalls[1].input.Tags[KeyOf(flags.tags[1])] = ValOf(flags.tags[2])

\* C6: position sends Position = <<lon, lat>>, values unchanged, and applies
\* no validation to them: zero values are forwarded like any other.
C6_PositionLonLat ==
    cmd = "position" =>
        /\ validated = "none"
        /\ ran =>
              /\ Len(backendCalls) = 1
              /\ backendCalls[1].op = "SearchPlaceIndexForPosition"
              /\ backendCalls[1].input.Position = <<flags.lon, flags.lat>>

C6_Witness ==
    /\ cmd = "position"
    /\ ran
    /\ flags.lat = 0 /\ flags.lon # 0
    /\ backendCalls[1].input.Position = <<flags.lon, 0>>

\* C7: an invocation issues at most one Location Backend call; a backend
\* failure is not followed by a second call.
C7_AtMostOneBackendCall ==
    /\ Len(backendCalls) <= 1
    /\ backendResult # "none" => Len(backendCalls) = 1

C7_Witness ==
    /\ pc = "exited"
    /\ backendResult = "err"
    /\ Len(backendCalls) = 1
    /\ runErr = BackendErr

\* C8: with --json and a successful backend response (one that encodes),
\* describe, list, position, suggestion and text write exactly one JSON
\* document to standard output and nothing else.
C8_JsonDocumentOnly ==
    (/\ cmd \in {"describe", "list", "position", "suggestion", "text"}
     /\ ran /\ flags.json /\ backendResult = "ok" /\ runErr = NoErr)
        => stdout = <<"json">>

\* C9: with an empty AwsProfile or AwsRegion every invocation ends in a fatal
\* error during the first setup(): no client is built, no backend call is
\* issued and the exit status is non-zero.
C9_MissingProfileOrRegionIsFatal ==
    (config.AwsProfile = "" \/ config.AwsRegion = "") =>
        /\ location = Nil
        /\ backendCalls = <<>>
        /\ pc \in {"PersistentPreRun", "exited"}
        /\ pc = "exited" => exitStatus # 0

C9_Witness ==
    /\ config.AwsProfile # "" /\ config.AwsRegion = ""
    /\ pc = "exited"
    /\ exitStatus = 1
    /\ errlog = <<"AwsRegion not set in yaml config file">>

\* the result tokens a search writes
IsResult(t) == t \in {"json", "summary", "results"}

\* C10: for suggestion and text, a backend call is issued only after PreRunE
\* accepted, a rejection is followed by no backend call, and result output is
\* written only after a successful backend response.
C10_ValidateCallOutput ==
    cmd \in SearchCmds =>
        /\ (ran \/ backendCalls # <<>>) => validated = "accepted"
        /\ validated = "rejected" => (backendCalls = <<>> /\ ~ran)
        /\ (\E i \in 1..Len(stdout) : IsResult(stdout[i])) => backendResult = "ok"

C10_Witness ==
    /\ cmd = "text"
    /\ validated = "accepted"
    /\ Len(backendCalls) = 1
    /\ backendResult = "ok"
    /\ stdout = <<"summary", "results">>

\* the flags with other coordinate values, everything else kept
WithCoords(f, la, lo, a, b, cc, dd) ==
    [f EXCEPT !.lat = la, !.lon = lo, !.x1 = a, !.x2 = b, !.y1 = cc, !.y2 = dd]

\* the requests a search command issues for flags f with service c
SearchCalls(c, f) ==
    IF cmd = "suggestion" THEN SearchPlaceIndexForSuggestions(c, SearchOf(f)).calls
    ELSE SearchPlaceIndexForText(c, SearchOf(f)).calls

\* the verdict of the command's PreRunE on flags f
Validates(f) ==
    IF cmd = "suggestion" THEN cmdSuggestionPreRunE(f) = NoErr
    ELSE cmdTextPreRunE(f) = NoErr

\* C11: the request a suggestion or text invocation sends carries index name,
\* text, country list and language only (no bias position, no bounding box),
\* and every invocation that passes validation with the same index name,
\* text and countries but other lat, lon, x1, x2, y1, y2 sends the same one.
C11_RequestIgnoresCoordinates ==
    (cmd \in SearchCmds /\ ran) =>
        /\ Len(backendCalls) = 1
        /\ DOMAIN backendCalls[1].input =
              {"IndexName", "Text", "FilterCountries", "Language"}
        /\ backendCalls[1].input =
              [IndexName |-> flags.indexName, Text |-> flags.text,
               FilterCountries |-> flags.countries,
               Language |-> location.language]
        /\ \A la \in Coord, lo \in Coord, a \in Coord, b \in Coord,
              cc \in Coord, dd \in Coord :
              Validates(WithCoords(flags, la, lo, a, b, cc, dd)) =>
                 SearchCalls(location, WithCoords(flags, la, lo, a, b, cc, dd))
                    = backendCalls

C11_Witness ==
    /\ cmd = "text"
    /\ ran
    /\ flags.lat # 0 /\ flags.lon # 0
    /\ BBoxFull(flags)
    /\ backendCalls = SearchCalls(location, WithCoords(flags, 0, 0, 0, 0, 0, 0))

\* the bounding-box components in the order the validator tests them
BBoxOrder == <<"x1", "x2", "y1", "y2">>
LatLonConsistent(f) == (f.lat = 0) <=> (f.lon = 0)
BBoxPartial(f) == ~BBoxZero(f) /\ ~BBoxFull(f)

\* the first component of BBoxOrder that is nonzero, its companions in
\* order, and the first of them that is zero
FirstSet(f) ==
    BBoxOrder[CHOOSE i \in 1..4 :
                  f[BBoxOrder[i]] # 0 /\ \A j \in 1..(i - 1) : f[BBoxOrder[j]] = 0]
Companions(c) == SelectSeq(BBoxOrder, LAMBDA n : n # c)
FirstMissing(f, c) ==
    Companions(c)[CHOOSE i \in 1..3 :
                      /\ f[Companions(c)[i]] = 0
                      /\ \A j \in 1..(i - 1) : f[Companions(c)[j]] # 0]

\* what a rejection message says: the component it reports as set and the
\* components it lists as not set (read off the message texts)
Says(m) ==
    CASE m = "x1 is set but x2 or y1 or y2 is not" ->
             [set |-> "x1", unset |-> <<"x2", "y1", "y2">>]
      [] m = "x2 is set but x1 or y1 or y2 is not" ->
             [set |-> "x2", unset |-> <<"x1", "y1", "y2">>]
      [] m = "y1 is set but x1 or x2 or y2 is not" ->
             [set |-> "y1", unset |-> <<"x1", "x2", "y2">>]
      [] m = "y2 is set but x1 or x2 or y1 is not" ->
             [set |-> "y2", unset |-> <<"x1", "x2", "y1">>]
      [] m = "latitude is set but longitude is not" ->
             [set |-> "latitude", unset |-> <<"longitude">>]
      [] m = "longitude is set but latitude is not" ->
             [set |-> "longitude", unset |-> <<"latitude">>]
      [] OTHER -> [set |-> "", unset |-> <<>>]

\* C12 as stated: with lat and lon consistent and the bounding box partial,
\* the rejection message names the first nonzero component c together with
\* the first of its companions that is zero.
C12_NamesFirstMissingCompanion ==
    (/\ cmd \in SearchCmds /\ validated # "none"
     /\ LatLonConsistent(flags) /\ BBoxPartial(flags)) =>
        /\ validated = "rejected"
        /\ Says(executeErr.msg).set = FirstSet(flags)
        /\ Says(executeErr.msg).unset = <<FirstMissing(flags, FirstSet(flags))>>

\* C12 amended: with lat and lon consistent and the bounding box partial,
\* the rejection message names the first nonzero component c together with
\* all three of its companions ("c is set but a or b or d is not"), whichever
\* of them is zero.
C12_NamesAllCompanions ==
    (/\ cmd \in SearchCmds /\ validated # "none"
     /\ LatLonConsistent(flags) /\ BBoxPartial(flags)) =>
        /\ validated = "rejected"
        /\ Says(executeErr.msg).set = FirstSet(flags)
        /\ Says(executeErr.msg).unset = Companions(FirstSet(flags))

C12_Witness ==
    /\ cmd = "text"
    /\ validated = "rejected"
    /\ LatLonConsistent(flags)
    /\ flags.x1 # 0 /\ flags.x2 # 0 /\ flags.y1 = 0 /\ flags.y2 # 0
    /\ executeErr = Err("x1 is set but x2 or y1 or y2 is not")

\* a bias position and a bounding box both given in full
BiasAndBBox(f) == f.lat # 0 /\ f.lon # 0 /\ BBoxFull(f)

\* the invocation is past Run or has returned to main without it
Finished == pc \in {"main", "exited"}

\* the verdict part of C13: the lat/lon pair and the bounding box are judged
\* separately and the input is accepted iff both are acceptable; in
\* particular a bias position together with a full bounding box is accepted
VerdictsIndependent ==
    (cmd \in SearchCmds /\ validated # "none") =>
        /\ validated = "accepted" <=>
              (LatLonConsistent(flags) /\ (BBoxZero(flags) \/ BBoxFull(flags)))
        /\ BiasAndBBox(flags) => validated = "accepted"

\* C13 as stated: every suggestion or text input with lat, lon and the four
\* bounding-box components all nonzero is accepted and the invocation
\* proceeds to the backend call; the two verdicts are independent.
C13_BiasAndBBoxProceeds ==
    /\ VerdictsIndependent
    /\ (cmd \in SearchCmds /\ BiasAndBBox(flags) /\ validated # "none" /\ Finished)
          => Len(backendCalls) = 1

\* C13 amended: every such input is accepted, and the invocation proceeds to
\* the backend call provided every flag marked required was given (cobra
\* checks the required flags after PreRunE and before Run); the two verdicts
\* are independent.
C13_BiasAndBBoxProceedsWhenRequiredGiven ==
    /\ VerdictsIndependent
    /\ (/\ cmd \in SearchCmds /\ BiasAndBBox(flags) /\ validated # "none"
        /\ Finished /\ required)
          => Len(backendCalls) = 1

C13_Witness ==
    /\ cmd = "suggestion"
    /\ BiasAndBBox(flags)
    /\ validated = "accepted"
    /\ ran
    /\ Len(backendCalls) = 1
    /\ backendCalls[1].op = "SearchPlaceIndexForSuggestions"

\* the request DescribePlaceIndex issues for index name n
DescribeRequest(n) == <<[op |-> "DescribePlaceIndex", input |-> [IndexName |-> n]]>>

DescribeWithoutIndexFails ==
    (cmd = "describe" /\ ran /\ flags.indexName = "") =>
        (location.indexName = "" /\ backendCalls = <<>>
            /\ runErr = Err("indexName not set"))

====
